---- MODULE Spec2Model ----
(***************************************************************************)
(* Model of google.cloud.ndb.query (src/ndb/src/google/cloud/ndb/query.py) *)
(*                                                                         *)
(* Three kinds of call are modelled, each as one atomic action:            *)
(*   - Parameter.resolve(bindings, used), called repeatedly on maps that   *)
(*     the caller shares between calls;                                    *)
(*   - Query(...), the keyword-only constructor with its validators;       *)
(*   - the constructors of the Node classes and of QueryIterator, which    *)
(*     the source defines as raising NotImplementedError.                  *)
(* Python values are records with a type tag t; Python's None is the       *)
(* string None where the other values of the argument are strings.         *)
(***************************************************************************)
EXTENDS Integers, Sequences, FiniteSets, TLC

VARIABLES
    api,        \* which call this behaviour exercises
    pc,         \* "call" before the call has run, "done" after
    bindings,   \* Parameter.resolve: the bindings dict
    used,       \* Parameter.resolve: the used dict
    last,       \* Parameter.resolve: the last call and its outcome
    args,       \* Query(...): the keyword arguments
    self,       \* Query(...): the constructed object, NoQuery if none
    exc,        \* Query(...) and the stub constructors: the exception raised
    expr,       \* Node classes: the constructor expression evaluated
    node,       \* Node classes: the object constructed, NoObject if none
    streams,    \* QueryIterator: the sub-streams handed to the constructor
    iterator,   \* QueryIterator: the object constructed, NoIterator if none
    resolved,   \* Parameter.resolve: the keys of the calls that returned
    opargs,     \* speech Operation: how it is built, and from what
    operation,  \* speech Operation: the object, NoOperation before it is built
    connection  \* speech Operation: the client's connection

vars ==
    <<api, pc, bindings, used, last, args, self, exc, expr, node, streams, iterator,
      resolved, opargs, operation, connection>>

None == "None"
NoExc == "no exception"

(***************************************************************************)
(* Bounds                                                                  *)
(***************************************************************************)
MaxKey == 2         \* parameter keys are 1..MaxKey
MaxVal == 1         \* bound values carry a payload 0..MaxVal
MaxProps == 2       \* longest projection / group_by list
MaxId == 1          \* ancestor key ids are 1..MaxId
MaxEntity == 3      \* entity keys in sub-streams are 1..MaxEntity
MaxBranches == 2    \* most sub-streams handed to a QueryIterator
MaxPolls == 2       \* most requests a connection records

(***************************************************************************)
(* Parameter.resolve                                                       *)
(***************************************************************************)
ParamKeys == 1..MaxKey

\* A bound value: a Python object with its type, so that a coercion shows.
Values == [t : {"int", "str"}, v : 0..MaxVal]

NoValue == [t |-> "unset", v |-> 0]

\* dicts: functions on a subset of the keys
BindingMaps == UNION {[S -> Values] : S \in SUBSET ParamKeys}

UsedMaps == UNION {[S -> BOOLEAN] : S \in SUBSET ParamKeys}

EmptyDict == [k \in {} |-> TRUE]

NoCall == [key |-> 0, exc |-> NoExc, value |-> NoValue]

\* `key not in bindings` (line 123), negated
IsBound(b, key) == key \in DOMAIN b

\* `value = bindings[key]` (line 127)
Lookup(b, key) == b[key]

\* `used[key] = True` (line 128): a dict item assignment
MarkUsedDropped(u, key) == u

MarkUsedAlone(u, key) == [x \in {key} |-> TRUE]

MarkUsed(u, key) == [x \in DOMAIN u \cup {key} |-> IF x = key THEN TRUE ELSE u[x]]

\* Parameter(key).resolve(bindings, used): the new used dict and the outcome
resolve(key, b, u) ==
    IF ~IsBound(b, key)
    THEN [used |-> u, exc |-> "BadArgumentError", value |-> NoValue]
    ELSE [used |-> MarkUsed(u, key), exc |-> NoExc, value |-> Lookup(b, key)]

Resolve(key) ==
    /\ api = "Parameter"
    /\ LET r == resolve(key, bindings, used) IN
        /\ used' = r.used
        /\ last' = [key |-> key, exc |-> r.exc, value |-> r.value]
    /\ pc' = "done"
    /\ resolved' = IF last'.exc = NoExc THEN resolved \cup {key} ELSE resolved
    /\ UNCHANGED <<api, bindings, args, self, exc, expr, node, streams, iterator>>
    /\ UNCHANGED <<opargs, operation, connection>>

(***************************************************************************)
(* Query(...): argument values                                             *)
(***************************************************************************)
Kinds == {None, "Pet", "Ghost"}

\* model.Model._kind_map: the kinds the registry knows, with their properties
KindMap == [k \in {"Pet"} |-> {"name"}]

Apps == {"app1", "app2"}
Namespaces == {"ns1", "ns2"}

\* ancestor: None, a ParameterizedThing, a model.Key, or some other object.
\* A Key's id() is None for an incomplete key: id 0 stands for it (line 246
\* tests the id's truth value, which None and 0 share).
NoneAncestor == [t |-> "NoneType", func |-> "", id |-> 0, app |-> None, namespace |-> None]

KeyAncestors == [t : {"Key"}, func : {""}, id : 0..MaxId, app : {"app1"}, namespace : {"ns1"}]

Ancestors ==
    {NoneAncestor}
    \cup [t : {"Parameter"}, func : {""}, id : {0}, app : {None}, namespace : {None}]
    \cup [t : {"ParameterizedFunction"}, func : {"key", "user"}, id : {0}, app : {None}, namespace : {None}]
    \cup KeyAncestors
    \cup [t : {"object"}, func : {""}, id : {0}, app : {None}, namespace : {None}]

FewAncestors ==
    {NoneAncestor} \cup {a \in KeyAncestors : a.id \in {0, 1}}

\* filters, orders, default_options: None, or an object named by its class
FilterArgs == {None, "Node", "object"}
OrderArgs == {None, "Order"}
OptionArgs == {None, "QueryOptions"}

\* An element of a projection / group_by list: a str, a model.Property with
\* its _name, or something else (an int).
Elements ==
    [t : {"str"}, name : {"name", "bogus"}]
    \cup [t : {"Property"}, name : {"name"}]
    \cup [t : {"int"}, name : {""}]

SeqsUpTo(S, n) == UNION {[1..k -> S] : k \in 0..n}

\* projection / group_by: None, a list or a tuple of elements, or a bare str
\* (the empty str is falsy, like an empty list).
NoneArg == [t |-> "NoneType", items |-> <<>>, name |-> ""]

PropertyArgs(n) ==
    {NoneArg}
    \cup [t : {"list", "tuple"}, items : SeqsUpTo(Elements, n), name : {""}]
    \cup [t : {"str"}, items : {<<>>}, name : {"", "name"}]

FewPropertyArgs ==
    {NoneArg}
    \cup [t : {"list"}, items : {<<>>, <<[t |-> "str", name |-> "name"]>>}, name : {""}]

\* The argument tuples explored: every argument takes all its values in one
\* of the three groups, with the remaining arguments taken from a few.
AncestorGroup ==
    [kind : Kinds, ancestor : Ancestors, filters : FilterArgs, orders : OrderArgs,
     app : Apps \cup {None}, namespace : Namespaces \cup {None},
     default_options : OptionArgs,
     projection : FewPropertyArgs, group_by : FewPropertyArgs]

ProjectionGroup ==
    [kind : Kinds, ancestor : FewAncestors, filters : FilterArgs, orders : OrderArgs,
     app : {None}, namespace : {None}, default_options : OptionArgs,
     projection : PropertyArgs(MaxProps), group_by : FewPropertyArgs]

GroupByGroup ==
    [kind : Kinds, ancestor : FewAncestors, filters : FilterArgs, orders : OrderArgs,
     app : {None}, namespace : {None}, default_options : OptionArgs,
     projection : FewPropertyArgs, group_by : PropertyArgs(MaxProps)]

QueryArgs == AncestorGroup \cup ProjectionGroup \cup GroupByGroup

NoArgs ==
    [kind |-> None, ancestor |-> NoneAncestor, filters |-> None, orders |-> None,
     app |-> None, namespace |-> None, default_options |-> None,
     projection |-> NoneArg, group_by |-> NoneArg]

(***************************************************************************)
(* Query(...): the validators                                              *)
(***************************************************************************)
\* The outcome of a validator: the value it returns, or the exception raised.
Return(v) == [exc |-> NoExc, val |-> v]
Raise(e) == [exc |-> e, val |-> None]

\* Python truth value of a Key id
IdTruthyAlways(id) == TRUE

IdTruthy(id) == id # 0

\* Python truth value of a projection / group_by argument
TruthyAlways(x) == TRUE

Truthy(x) == IF x.t \in {"list", "tuple"} THEN Len(x.items) > 0 ELSE x.name # ""

\* Query._validate_ancestor
_validate_ancestor(ancestor, app, namespace) ==
    IF ancestor.t = "NoneType" THEN Return(ancestor)
    ELSE IF ancestor.t \in {"Parameter", "ParameterizedFunction"} THEN
        IF ancestor.t = "ParameterizedFunction" /\ ancestor.func # "key"
        THEN Raise("TypeError")
        ELSE Return(ancestor)
    ELSE IF ancestor.t # "Key" THEN Raise("TypeError")
    ELSE IF ~IdTruthy(ancestor.id) THEN Raise("ValueError")
    ELSE IF app # None /\ app # ancestor.app THEN Raise("TypeError")
    ELSE IF namespace # None /\ namespace # ancestor.namespace THEN Raise("TypeError")
    ELSE Return(ancestor)

\* Query._validate_filters
_validate_filters(filters) ==
    IF filters # None /\ filters # "Node" THEN Raise("TypeError") ELSE Return(filters)

\* Query._validate_orders
ValidateOrdersAccepting(orders) == Return(orders)

_validate_orders(orders) ==
    IF orders # None THEN Raise("NotImplementedError") ELSE Return(orders)

\* Query._validate_default_options
_validate_default_options(default_options) ==
    IF default_options # None THEN Raise("NotImplementedError") ELSE Return(default_options)

\* Query._validate_namespace
ValidateNamespaceNoDefault(namespace, ancestor) == namespace

_validate_namespace(namespace, ancestor) ==
    IF namespace = None /\ ancestor.t = "Key" THEN ancestor.namespace ELSE namespace

\* Query._to_property_names, on a list or tuple: the names, or TypeError
BadElements(properties) ==
    {i \in 1..Len(properties.items) : properties.items[i].t \notin {"str", "Property"}}

_to_property_names(properties) ==
    IF BadElements(properties) # {}
    THEN Raise("TypeError")
    ELSE Return([i \in 1..Len(properties.items) |-> properties.items[i].name])

\* modelclass._check_properties(fixed): every name is a property of the kind
ModelCheckProperties(fixed, kind) ==
    IF \E i \in 1..Len(fixed) : fixed[i] \notin KindMap[kind]
    THEN "InvalidArgument" ELSE NoExc

\* Query._check_properties
_check_properties(fixed, kind) ==
    IF kind \in DOMAIN KindMap THEN ModelCheckProperties(fixed, kind) ELSE NoExc

\* tuple(projection)
Tuple(x) == [t |-> "tuple", items |-> x.items, name |-> ""]

\* The body shared by Query._validate_projection (lines 311-323) and
\* Query._validate_group_by (lines 325-337), which differ in the argument's
\* name only.
ValidatePropertyArg(properties, kind) ==
    IF properties.t = "NoneType" THEN Return(NoneArg)
    ELSE IF ~Truthy(properties) THEN Raise("TypeError")
    ELSE IF properties.t \notin {"tuple", "list"} THEN Raise("TypeError")
    ELSE LET fixed == _to_property_names(properties) IN
        IF fixed.exc # NoExc THEN Raise(fixed.exc)
        ELSE LET checked == _check_properties(fixed.val, kind) IN
            IF checked # NoExc THEN Raise(checked)
            ELSE Return(Tuple(properties))

_validate_projection(projection, kind) == ValidatePropertyArg(projection, kind)

_validate_group_by(group_by, kind) == ValidatePropertyArg(group_by, kind)

(***************************************************************************)
(* Query.__init__                                                          *)
(***************************************************************************)
NoQuery ==
    [kind |-> None, ancestor |-> NoneAncestor, filters |-> None, orders |-> None,
     app |-> None, namespace |-> None, default_options |-> None,
     projection |-> NoneArg, group_by |-> NoneArg, exists |-> FALSE]

\* The validators run in the order of the assignments of lines 215-223; the
\* first exception leaves __init__, and no object is returned to the caller.
__init__(a) ==
    LET ancestor == _validate_ancestor(a.ancestor, a.app, a.namespace)
        filters == _validate_filters(a.filters)
        orders == _validate_orders(a.orders)
        namespace == _validate_namespace(a.namespace, a.ancestor)
        default_options == _validate_default_options(a.default_options)
        projection == _validate_projection(a.projection, a.kind)
        group_by == _validate_group_by(a.group_by, a.kind)
        Fail(e) == [exc |-> e, obj |-> NoQuery]
    IN  IF ancestor.exc # NoExc THEN Fail(ancestor.exc)
        ELSE IF filters.exc # NoExc THEN Fail(filters.exc)
        ELSE IF orders.exc # NoExc THEN Fail(orders.exc)
        ELSE IF default_options.exc # NoExc THEN Fail(default_options.exc)
        ELSE IF projection.exc # NoExc THEN Fail(projection.exc)
        ELSE IF group_by.exc # NoExc THEN Fail(group_by.exc)
        ELSE [exc |-> NoExc,
              obj |-> [kind |-> a.kind, ancestor |-> ancestor.val,
                       filters |-> filters.val, orders |-> orders.val,
                       app |-> a.app, namespace |-> namespace,
                       default_options |-> default_options.val,
                       projection |-> projection.val, group_by |-> group_by.val,
                       exists |-> TRUE]]

\* Query(**args)
NewQuery ==
    /\ api = "Query"
    /\ pc = "call"
    /\ LET r == __init__(args) IN
        /\ self' = r.obj
        /\ exc' = r.exc
    /\ pc' = "done"
    /\ UNCHANGED <<api, bindings, used, last, args, expr, node, streams, iterator>>
    /\ UNCHANGED <<resolved, opargs, operation, connection>>

(***************************************************************************)
(* The Node classes and QueryIterator                                      *)
(***************************************************************************)
FilterProps == {"a", "b"}
FilterOps == {"=", "<", ">"}

\* Constructor expressions, as client code writes them: FilterNode(prop, op,
\* value), and ConjunctionNode / DisjunctionNode of two operand expressions.
Leaves ==
    [cls : {"FilterNode"}, prop : FilterProps, op : FilterOps, value : {1},
     operands : {<<>>}]

Composite(S) ==
    [cls : {"ConjunctionNode", "DisjunctionNode"}, prop : {""}, op : {""}, value : {0},
     operands : [1..2 -> S]]

Flat == Composite(Leaves)

Expressions == Leaves \cup Flat \cup Composite(Leaves \cup Flat)

NoObject == [cls |-> "NoObject", prop |-> "", op |-> "", value |-> 0, operands |-> <<>>]

\* Node.__init__ and the __init__ of each of its subclasses (lines 137-169),
\* and QueryIterator.__init__ (lines 344-346): `raise NotImplementedError`
StubInit(cls) == "NotImplementedError"

\* Evaluating a constructor expression: Python evaluates the arguments of a
\* call left to right, each to an object, before it makes the call; the first
\* exception ends the evaluation. `at` is the class whose __init__ raised.
RECURSIVE Eval(_)
Eval(e) ==
    LET arg == [i \in 1..Len(e.operands) |-> Eval(e.operands[i])]
        failed == {i \in 1..Len(e.operands) : arg[i].exc # NoExc}
    IN  IF failed # {}
        THEN arg[CHOOSE i \in failed : \A j \in failed : i <= j]
        ELSE [exc |-> StubInit(e.cls), at |-> e.cls]

\* Client code builds a filter tree
BuildTree ==
    /\ api = "Node"
    /\ pc = "call"
    /\ LET r == Eval(expr) IN
        /\ exc' = r.exc
        /\ node' = IF r.exc = NoExc THEN expr ELSE NoObject
    /\ pc' = "done"
    /\ UNCHANGED <<api, bindings, used, last, args, self, expr, streams, iterator>>
    /\ UNCHANGED <<resolved, opargs, operation, connection>>

\* A sub-stream: entity keys in increasing order
RECURSIVE Ascending(_)
Ascending(S) ==
    IF S = {} THEN <<>>
    ELSE LET m == CHOOSE x \in S : \A y \in S : x <= y
         IN <<m>> \o Ascending(S \ {m})

SubStreams == {Ascending(S) : S \in SUBSET (1..MaxEntity)}

StreamArgs == UNION {[1..n -> SubStreams] : n \in 1..MaxBranches}

NoIterator == [state |-> "none", emitted |-> <<>>]

\* QueryIterator(*streams)
NewQueryIterator ==
    /\ api = "QueryIterator"
    /\ pc = "call"
    /\ exc' = StubInit("QueryIterator")
    /\ iterator' = IF exc' = NoExc THEN [state |-> "Pending", emitted |-> <<>>] ELSE NoIterator
    /\ pc' = "done"
    /\ UNCHANGED <<api, bindings, used, last, args, self, expr, node, streams>>
    /\ UNCHANGED <<resolved, opargs, operation, connection>>

(***************************************************************************)
(* google.cloud.speech.operation.Operation, as its unit tests drive it     *)
(* (src/speech/google/cloud/speech/test_operation.py)                      *)
(***************************************************************************)
OperationNames == {"123456789", "42"}

\* An API response: the operation's name, its metadata if any (with the
\* progress_percent), whether it is done, and the number of results. A done
\* response carries metadata at 100 percent, as OPERATION_COMPLETE_RESPONSE
\* does; ASYNC_RECOGNIZE_RESPONSE is a name alone.
Responses ==
    {r \in [name : OperationNames, hasMetadata : BOOLEAN, progress : {0, 27, 100},
            done : BOOLEAN, results : 0..1] :
        /\ ~r.hasMetadata => r.progress = 0
        /\ r.done => (r.hasMetadata /\ r.progress = 100)
        /\ ~r.done => r.results = 0}

NoResponse == [name |-> "", hasMetadata |-> FALSE, progress |-> 0, done |-> FALSE, results |-> 0]

NoMetadata == [t |-> "NoneType", progress_percent |-> 0]

NoOperation ==
    [name |-> "", complete |-> FALSE, metadata |-> NoMetadata, results |-> "None",
     exists |-> FALSE]

\* Operation(client, name) or Operation.from_api_repr(client, response)
OperationArgs ==
    [how : {"ctor"}, name : OperationNames, response : {NoResponse}]
    \cup [how : {"from_api_repr"}, name : {""}, response : Responses]

\* _Connection(response): the response it serves and the requests it has seen
Connections == [response : Responses, requested : {<<>>}]

\* _Connection.api_request(method, path): records the request (the response
\* it returns is self.response)
ApiRequestUnrecorded(conn, method, path) == conn

api_request(conn, method, path) ==
    [conn EXCEPT !.requested = Append(@, [method |-> method, path |-> path])]

\* Operation.__init__(client, name) with its defaults
OperationInit(name) ==
    [name |-> name, complete |-> FALSE, metadata |-> NoMetadata, results |-> "None",
     exists |-> TRUE]

\* Operation._update(response)
_update(op, response) ==
    [op EXCEPT
        !.metadata = IF response.hasMetadata
                     THEN [t |-> "Metadata", progress_percent |-> response.progress]
                     ELSE @,
        !.results = IF response.results = 0 THEN "[]" ELSE "[Transcript]",
        !.complete = response.done]

\* Operation.from_api_repr(client, response)
from_api_repr(response) == _update(OperationInit(response.name), response)

\* 'operations/%s' % (operation.name,)
OperationPath(name) == "operations/" \o name

NewOperation ==
    /\ api = "Operation"
    /\ pc = "call"
    /\ operation' = IF opargs.how = "ctor"
                    THEN OperationInit(opargs.name)
                    ELSE from_api_repr(opargs.response)
    /\ pc' = "done"
    /\ UNCHANGED <<api, bindings, used, last, args, self, exc, expr, node, streams, iterator>>
    /\ UNCHANGED <<resolved, opargs, connection>>

\* Operation.poll()
Poll ==
    /\ api = "Operation"
    /\ pc = "done"
    /\ IF operation.complete
       THEN /\ exc' = "ValueError"
            /\ UNCHANGED <<operation, connection>>
       ELSE /\ Len(connection.requested) < MaxPolls
            /\ connection' = api_request(connection, "GET", OperationPath(operation.name))
            /\ operation' = _update(operation, connection.response)
            /\ exc' = NoExc
    /\ UNCHANGED <<api, pc, bindings, used, last, args, self, expr, node, streams, iterator>>
    /\ UNCHANGED <<resolved, opargs>>

(***************************************************************************)
(* Specification                                                           *)
(***************************************************************************)
Init ==
    /\ api \in {"Parameter", "Query", "Node", "QueryIterator", "Operation"}
    /\ pc = "call"
    /\ IF api = "Parameter"
       THEN bindings \in BindingMaps /\ used \in UsedMaps
       ELSE bindings = EmptyDict /\ used = EmptyDict
    /\ last = NoCall
    /\ IF api = "Query" THEN args \in QueryArgs ELSE args = NoArgs
    /\ self = NoQuery
    /\ exc = NoExc
    /\ IF api = "Node" THEN expr \in Expressions ELSE expr = NoObject
    /\ node = NoObject
    /\ IF api = "QueryIterator" THEN streams \in StreamArgs ELSE streams = <<>>
    /\ iterator = NoIterator
    /\ resolved = {}
    /\ IF api = "Operation"
       THEN opargs \in OperationArgs /\ connection \in Connections
       ELSE /\ opargs = [how |-> "ctor", name |-> "", response |-> NoResponse]
            /\ connection = [response |-> NoResponse, requested |-> <<>>]
    /\ operation = NoOperation

Next ==
    \/ \E key \in ParamKeys : Resolve(key)
    \/ NewQuery
    \/ BuildTree
    \/ NewQueryIterator
    \/ NewOperation
    \/ Poll

Spec == Init /\ [][Next]_vars

\* Parameters that resolve, call after call, against one bindings dict and
\* one used dict that the caller hands over empty
InitSharedMaps == Init /\ api = "Parameter" /\ used = EmptyDict

NextSharedMaps == \E key \in ParamKeys : Resolve(key)

SpecSharedMaps == InitSharedMaps /\ [][NextSharedMaps]_vars

(***************************************************************************)
(* Properties                                                              *)
(***************************************************************************)
\* The documented error classes and the exceptions that stand for them
InvalidArgument == {"TypeError", "ValueError", "InvalidArgument"}
NotSupportedError == {"NotImplementedError"}

QueryDone == api = "Query" /\ pc = "done"

\* C1: Parameter(k).resolve(bindings, used) raises BadArgumentError exactly
\* when k is not a key of bindings; when it succeeds it returns bindings[k]
\* as it is and used[k] is True afterwards; when it fails the entry of k in
\* used is as it was before the call.
C1_ResolveContract ==
    [][api = "Parameter" =>
        LET k == last'.key IN
        /\ last'.exc \in {NoExc, "BadArgumentError"}
        /\ (last'.exc = "BadArgumentError") <=> (k \notin DOMAIN bindings)
        /\ last'.exc = NoExc =>
            /\ last'.value = bindings[k]
            /\ k \in DOMAIN used'
            /\ used'[k] = TRUE
        /\ last'.exc # NoExc =>
            /\ last'.value = NoValue
            /\ (k \in DOMAIN used') <=> (k \in DOMAIN used)
            /\ k \in DOMAIN used => used'[k] = used[k]
    ]_vars

C1_Witness ==
    /\ api = "Parameter" /\ pc = "done"
    /\ last.exc = NoExc
    /\ last.key \in DOMAIN used /\ used[last.key]
    /\ last.value = bindings[last.key] /\ last.value.t = "str"

\* C6: Query(ancestor=key) with an incomplete key raises ValueError and no
\* Query object results; a Query that exists and whose ancestor is a key has
\* an ancestor with an id.
C6_IncompleteAncestorRejected ==
    QueryDone =>
        /\ (args.ancestor.t = "Key" /\ args.ancestor.id = 0) =>
            (exc = "ValueError" /\ ~self.exists)
        /\ (self.exists /\ self.ancestor.t = "Key") => self.ancestor.id # 0

C6_Witness ==
    QueryDone /\ args.ancestor.t = "Key" /\ args.ancestor.id = 0 /\ exc = "ValueError"

\* C7: with a key as ancestor, an app or a namespace given and different from
\* the ancestor's makes the construction fail with InvalidArgument; a
\* namespace not given defaults to the ancestor's; so a Query that exists has
\* the ancestor's namespace, and an app not given or equal to the ancestor's.
C7_AncestorScopeAgrees ==
    (QueryDone /\ args.ancestor.t = "Key") =>
        /\ ((args.app # None /\ args.app # args.ancestor.app)
            \/ (args.namespace # None /\ args.namespace # args.ancestor.namespace)) =>
                (exc \in InvalidArgument /\ ~self.exists)
        /\ self.exists =>
            /\ self.namespace = args.ancestor.namespace
            /\ self.app = None \/ self.app = args.ancestor.app
            /\ self.ancestor = args.ancestor

C7_Witness ==
    /\ QueryDone /\ self.exists
    /\ args.ancestor.t = "Key" /\ args.namespace = None
    /\ self.namespace = "ns1"

\* What the validators accept, argument by argument, as the documentation
\* of the constructor states it
AncestorAccepted ==
    \/ args.ancestor.t \in {"NoneType", "Parameter"}
    \/ args.ancestor.t = "ParameterizedFunction" /\ args.ancestor.func = "key"
    \/ /\ args.ancestor.t = "Key"
       /\ args.ancestor.id # 0
       /\ args.app \in {None, args.ancestor.app}
       /\ args.namespace \in {None, args.ancestor.namespace}

FiltersAccepted == args.filters \in {None, "Node"}

Unsupported == args.orders # None \/ args.default_options # None

\* C8 as stated: a filters that is neither None nor a Node fails with
\* InvalidArgument, an orders or default_options that is not None fails with
\* NotSupportedError, and a Query that exists has filters None or a Node,
\* orders None and default_options None.
C8_AsStated ==
    QueryDone =>
        /\ ~FiltersAccepted => (exc \in InvalidArgument /\ ~self.exists)
        /\ Unsupported => (exc \in NotSupportedError /\ ~self.exists)
        /\ self.exists =>
            /\ self.filters \in {None, "Node"}
            /\ self.orders = None
            /\ self.default_options = None

\* C8 amended: as C8, but an orders or default_options that is not None
\* fails with NotSupportedError only when ancestor and filters, which are
\* validated first, are accepted; otherwise the construction fails with the
\* InvalidArgument of the first of these.
C8_RejectedArguments ==
    QueryDone =>
        /\ ~FiltersAccepted => (exc \in InvalidArgument /\ ~self.exists)
        /\ Unsupported =>
            /\ ~self.exists
            /\ IF AncestorAccepted /\ FiltersAccepted
               THEN exc \in NotSupportedError
               ELSE exc \in InvalidArgument
        /\ self.exists =>
            /\ self.filters \in {None, "Node"}
            /\ self.orders = None
            /\ self.default_options = None

C8_Witness ==
    /\ QueryDone /\ args.orders # None /\ args.filters = "Node"
    /\ exc = "NotImplementedError" /\ ~self.exists

\* A projection / group_by argument that is given and is empty, or no list
\* or tuple, or holds an element that is neither a str nor a Property
Malformed(p) ==
    /\ p.t # "NoneType"
    /\ \/ p.t \notin {"list", "tuple"}
       \/ p.items = <<>>
       \/ \E i \in 1..Len(p.items) : p.items[i].t \notin {"str", "Property"}

WellFormed(p) == p.t # "NoneType" /\ ~Malformed(p)

UnknownName(p, kind) ==
    /\ kind \in DOMAIN KindMap
    /\ \E i \in 1..Len(p.items) : p.items[i].name \notin KindMap[kind]

PropertyArgsOf == {args.projection, args.group_by}

\* C9 as stated: a malformed projection or group_by fails with
\* InvalidArgument; with a kind the registry knows, a name that is no
\* property of the kind fails; with a kind the registry does not know no
\* name is checked and the construction (its other arguments accepted)
\* succeeds.
C9_AsStated ==
    QueryDone =>
        /\ \A p \in PropertyArgsOf :
            /\ Malformed(p) => (exc \in InvalidArgument /\ ~self.exists)
            /\ (WellFormed(p) /\ UnknownName(p, args.kind)) => ~self.exists
        /\ (/\ args.kind \notin DOMAIN KindMap
            /\ \A p \in PropertyArgsOf : ~Malformed(p)
            /\ AncestorAccepted /\ FiltersAccepted /\ ~Unsupported) => self.exists

\* C9 amended: as C9, but a malformed projection or group_by fails with
\* InvalidArgument unless orders or default_options is not None while
\* ancestor and filters are accepted: these are validated first, and the
\* construction then fails with NotSupportedError.
C9_PropertyArguments ==
    QueryDone =>
        /\ \A p \in PropertyArgsOf :
            /\ Malformed(p) =>
                /\ ~self.exists
                /\ IF Unsupported /\ AncestorAccepted /\ FiltersAccepted
                   THEN exc \in NotSupportedError
                   ELSE exc \in InvalidArgument
            /\ (WellFormed(p) /\ UnknownName(p, args.kind)) => ~self.exists
        /\ (/\ args.kind \notin DOMAIN KindMap
            /\ \A p \in PropertyArgsOf : ~Malformed(p)
            /\ AncestorAccepted /\ FiltersAccepted /\ ~Unsupported) => self.exists

C9_Witness ==
    /\ QueryDone
    /\ args.kind = "Pet"
    /\ WellFormed(args.projection)
    /\ Malformed(args.group_by) /\ args.group_by.t = "tuple"
    /\ exc = "TypeError" /\ ~self.exists

\* The names of the elements of a projection / group_by, as a tuple of str
NamesOf(p) ==
    [t |-> "tuple",
     items |-> [i \in 1..Len(p.items) |-> [t |-> "str", name |-> p.items[i].name]],
     name |-> ""]

\* C10: the projection and the group_by of a Query that exists are, when
\* set, tuples of property names, each Property given replaced by its name,
\* in the order given.
C10_StoredAsNames ==
    (QueryDone /\ self.exists) =>
        /\ args.projection.t # "NoneType" => self.projection = NamesOf(args.projection)
        /\ args.group_by.t # "NoneType" => self.group_by = NamesOf(args.group_by)

(***************************************************************************)
(* Properties of the filter tree, the normal form and the merged iterator, *)
(* stated on the outcome of the constructor calls                          *)
(***************************************************************************)
TreeDone == api = "Node" /\ pc = "done"
IteratorDone == api = "QueryIterator" /\ pc = "done"

\* A record gives each filtered property a value
Records == [FilterProps -> 0..2]

LeafMatches(l, r) ==
    CASE l.op = "=" -> r[l.prop] = l.value
      [] l.op = "<" -> r[l.prop] < l.value
      [] l.op = ">" -> r[l.prop] > l.value

RECURSIVE Matches(_, _)
Matches(e, r) ==
    CASE e.cls = "FilterNode" -> LeafMatches(e, r)
      [] e.cls = "ConjunctionNode" -> \A i \in 1..Len(e.operands) : Matches(e.operands[i], r)
      [] e.cls = "DisjunctionNode" -> \E i \in 1..Len(e.operands) : Matches(e.operands[i], r)

\* The disjunctive normal form: a set of conjunctions, each a set of filters
RECURSIVE Dnf(_)
Dnf(e) ==
    CASE e.cls = "FilterNode" -> {{e}}
      [] e.cls = "DisjunctionNode" -> Dnf(e.operands[1]) \cup Dnf(e.operands[2])
      [] e.cls = "ConjunctionNode" ->
            {c1 \cup c2 : c1 \in Dnf(e.operands[1]), c2 \in Dnf(e.operands[2])}

InequalityProps(c) == {l.prop : l \in {x \in c : x.op \in {"<", ">"}}}

\* The merge of sub-streams: every key once, in increasing order
Merged(ss) == Ascending(UNION {{ss[i][j] : j \in 1..Len(ss[i])} : i \in 1..Len(ss)})

IsPrefix(s, t) == Len(s) <= Len(t) /\ \A i \in 1..Len(s) : s[i] = t[i]

IteratorStates == {"Pending", "Fetching", "Yielding", "Exhausted", "Failed"}

\* C2: the merged QueryIterator over sub-streams, each in key order, emits
\* every entity key of the sub-streams exactly once and in key order: what
\* it has emitted is a prefix of the merge, and all of it once exhausted.
C2_MergedOutput ==
    IteratorDone =>
        /\ iterator # NoIterator
        /\ IsPrefix(iterator.emitted, Merged(streams))
        /\ iterator.state = "Exhausted" => iterator.emitted = Merged(streams)

\* C3: a filter tree, however it was built, executes as the OR of the
\* primitive conjunctions of its normal form: the tree is built, and a
\* record matches the tree exactly when it matches one of the conjunctions.
C3_DnfEquivalence ==
    TreeDone =>
        /\ exc = NoExc
        /\ node = expr
        /\ \A r \in Records :
            Matches(node, r) <=> \E c \in Dnf(node) : \A l \in c : LeafMatches(l, r)

\* C4: normalizing a tree fails with BadFilterCombination when one of its
\* conjunctions has inequalities on two properties, and succeeds otherwise
\* (two inequalities on one property included).
C4_OneInequalityProperty ==
    TreeDone =>
        IF \E c \in Dnf(expr) : Cardinality(InequalityProps(c)) > 1
        THEN exc = "BadFilterCombination"
        ELSE exc = NoExc

\* C5: a QueryIterator is in one of Pending, Fetching, Yielding, Exhausted
\* and Failed; it is Yielding only after it has had a record to hand out,
\* and Exhausted only with every sub-stream drained.
C5_IteratorStates ==
    IteratorDone =>
        /\ iterator.state \in IteratorStates
        /\ iterator.emitted = <<>> => iterator.state # "Yielding"
        /\ iterator.state = "Exhausted" => Len(iterator.emitted) = Len(Merged(streams))

(***************************************************************************)
(* Properties of the speech Operation and of shared resolution maps        *)
(***************************************************************************)
\* C11: an Operation built from a client and a name, or from a response that
\* is not done, is not complete; poll() on an operation that is not complete
\* sends GET operations/<name> and updates the operation from the response,
\* so that a done response leaves it complete with its metadata set; poll()
\* on a complete operation raises ValueError and changes nothing; complete
\* never goes back from true to false.
C11_PollContract ==
    [][api = "Operation" =>
        /\ (pc = "call" /\ pc' = "done") =>
            ((opargs.how = "ctor" \/ ~opargs.response.done) => ~operation'.complete)
        /\ (pc = "done" /\ ~operation.complete) =>
            /\ exc' = NoExc
            /\ connection'.requested =
                Append(connection.requested,
                       [method |-> "GET", path |-> "operations/" \o operation.name])
            /\ operation'.name = operation.name
            /\ operation'.complete = connection.response.done
            /\ connection.response.hasMetadata =>
                operation'.metadata =
                    [t |-> "Metadata", progress_percent |-> connection.response.progress]
            /\ connection.response.done =>
                (operation'.complete /\ operation'.metadata.t = "Metadata")
        /\ (pc = "done" /\ operation.complete) =>
            /\ exc' = "ValueError"
            /\ operation' = operation
            /\ connection' = connection
        /\ operation.complete => operation'.complete
    ]_vars

C11_Witness ==
    /\ api = "Operation" /\ pc = "done"
    /\ opargs.how = "from_api_repr" /\ ~opargs.response.done
    /\ operation.complete /\ operation.metadata.t = "Metadata"
    /\ connection.requested = <<[method |-> "GET", path |-> "operations/123456789"]>>
    /\ exc = "ValueError"

\* C12: over any sequence of resolve calls on one bindings dict and one used
\* dict that starts empty: bindings is never modified; a call changes no
\* entry of used but that of its own key; a failing call changes nothing; no
\* entry of used is removed or set to False; and the keys of used are at
\* every point exactly the keys whose resolution succeeded, all of them keys
\* of bindings.
C12_SharedMapsFrame ==
    /\ [](/\ DOMAIN used = resolved
          /\ resolved \subseteq DOMAIN bindings
          /\ \A k \in DOMAIN used : used[k] = TRUE)
    /\ [][LET k == last'.key IN
          /\ bindings' = bindings
          /\ \A j \in ParamKeys \ {k} :
                /\ (j \in DOMAIN used') <=> (j \in DOMAIN used)
                /\ j \in DOMAIN used => used'[j] = used[j]
          /\ last'.exc # NoExc => used' = used
          /\ \A j \in DOMAIN used : j \in DOMAIN used' /\ (used[j] => used'[j])
         ]_vars

C12_Witness ==
    /\ api = "Parameter"
    /\ last.exc = "BadArgumentError"
    /\ resolved # {} /\ DOMAIN used = resolved
    /\ last.key \notin DOMAIN used

====
